---------------------------- MODULE Spec2Model ----------------------------
(***************************************************************************)
(* Model of the Windows voice assistant (src/voice_assistant.py).          *)
(*                                                                         *)
(* A Python str is modelled as a sequence of one-character strings, so     *)
(* that strip, lower, startswith, split, replace and the `in` operator are *)
(* computed character by character, the way the interpreter computes them. *)
(* The session is a state machine whose program counter `pc` follows       *)
(* VoiceAssistant.run, process_command and the handlers it dispatches to.  *)
(***************************************************************************)
EXTENDS Integers, Sequences, FiniteSets, TLC

VARIABLES
    pc,                     \* position of the single thread of control
    running,                \* VoiceAssistant.running
    text,                   \* run(): the text returned by listen(), or None
    command,                \* process_command(): (command_type, command_data)
    response,               \* process_command(): status string of the handler
    confirmation,           \* delete_file(): result of the nested listen()
    CONVERSATION_CONTEXT,   \* module-level list of {'user', 'assistant'} turns
    turns,                  \* every turn query_ollama has appended, in order
    last_spoken,            \* the text most recently handed to speak()
    llm,                    \* outcome of the last requests.post in query_ollama
    files,                  \* the filesystem: paths of existing regular files
    os_call,                \* last side-effecting OS call of the current dispatch
    interrupted             \* a KeyboardInterrupt has been raised

vars == <<pc, running, text, command, response, confirmation,
          CONVERSATION_CONTEXT, turns, last_spoken, llm, files, os_call,
          interrupted>>

-----------------------------------------------------------------------------
(* Python values and str methods *)

\* Python's None; no str equals it (every str is a sequence of single characters)
None == <<"<None>">>

Whitespace == {" ", "\t", "\n", "\r"}

UpperCase == <<"A","B","C","D","E","F","G","H","I","J","K","L","M",
               "N","O","P","Q","R","<<",">>T","U","V","W","X","Y","Z">>

LowerCase == <<"a","b","c","d","e","f","g","h","i","j","k","l","m",
               "n","o","p","q","r","s","t","u","v","w","x","y","z">>

\* str.lower() on one character
lower_char(c) ==
    IF \E i \in 1..26 : UpperCase[i] = c
    THEN LowerCase[CHOOSE i \in 1..26 : UpperCase[i] = c]
    ELSE c

\* str.lower()
lower(s) == [i \in 1..Len(s) |-> lower_char(s[i])]

\* str.strip(): drops leading and trailing whitespace
strip(s) ==
    LET keep == {i \in 1..Len(s) : s[i] \notin Whitespace}
    IN  IF keep = {} THEN <<>>
        ELSE LET first == CHOOSE i \in keep : \A j \in keep : i <= j
                 last  == CHOOSE i \in keep : \A j \in keep : j <= i
             IN  SubSeq(s, first, last)

\* str.startswith(prefix)
startswith(s, prefix) ==
    /\ Len(prefix) <= Len(s)
    /\ SubSeq(s, 1, Len(prefix)) = prefix

\* the `in` operator on two str: sub in s
contains(s, sub) ==
    \E i \in 0..(Len(s) - Len(sub)) : SubSeq(s, i + 1, i + Len(sub)) = sub

\* str.split(sep, 1): the list of parts, split at the first occurrence of sep
split1(s, sep) ==
    IF contains(s, sep)
    THEN LET at == CHOOSE i \in 0..(Len(s) - Len(sep)) :
                       /\ SubSeq(s, i + 1, i + Len(sep)) = sep
                       /\ \A j \in 0..(i - 1) : SubSeq(s, j + 1, j + Len(sep)) # sep
         IN  <<SubSeq(s, 1, at), SubSeq(s, at + Len(sep) + 1, Len(s))>>
    ELSE <<s>>

\* str.replace(old, new) for a non-empty old: every non-overlapping
\* occurrence, scanning from the left
RECURSIVE replace(_, _, _)
replace(s, old, new) ==
    IF Len(s) < Len(old) THEN s
    ELSE IF SubSeq(s, 1, Len(old)) = old
         THEN new \o replace(SubSeq(s, Len(old) + 1, Len(s)), old, new)
         ELSE <<s[1]>> \o replace(Tail(s), old, new)

-----------------------------------------------------------------------------
(* parse_command *)

\* app_names of the close path
close_app_names == <<
    <<"c","h","r","o","m","e">>, <<"g","o","o","g","l","e"," ","c","h","r","o","m","e">>, <<"f","i","r","e","f","o","x">>, <<"e","d","g","e">>, <<"m","i","c","r","o","s","o","f","t"," ","e","d","g","e">>, <<"b","r","o","w","s","e","r">>,
    <<"n","o","t","e","p","a","d">>, <<"n","o","t","e","p","a","d","+","+">>, <<"c","o","d","e">>, <<"v","i","s","u","a","l"," ","s","t","u","d","i","o"," ","c","o","d","e">>, <<"v","s"," ","c","o","d","e">>,
    <<"c","a","l","c","u","l","a","t","o","r">>, <<"c","a","l","c">>, <<"p","a","i","n","t">>, <<"m","s","p","a","i","n","t">>, <<"w","o","r","d">>, <<"e","x","c","e","l">>, <<"p","o","w","e","r","p","o","i","n","t">>,
    <<"s","p","o","t","i","f","y">>, <<"d","i","s","c","o","r","d">>, <<"s","t","e","a","m">>, <<"v","l","c">>, <<"m","e","d","i","a"," ","p","l","a","y","e","r">>,
    <<"s","e","t","t","i","n","g","s">>, <<"c","o","n","t","r","o","l"," ","p","a","n","e","l">>, <<"t","a","s","k"," ","m","a","n","a","g","e","r">>, <<"c","m","d">>, <<"c","o","m","m","a","n","d"," ","p","r","o","m","p","t">>,
    <<"p","o","w","e","r","s","h","e","l","l">>, <<"e","x","p","l","o","r","e","r">>, <<"f","i","l","e"," ","e","x","p","l","o","r","e","r">>, <<"w","i","n","d","o","w","s"," ","e","x","p","l","o","r","e","r">> >>

\* app_names of the open path with the longer alias put first
open_app_names_reordered == <<
    <<"g","o","o","g","l","e"," ","c","h","r","o","m","e">>, <<"c","h","r","o","m","e">>, <<"f","i","r","e","f","o","x">>, <<"e","d","g","e">>, <<"m","i","c","r","o","s","o","f","t"," ","e","d","g","e">>, <<"b","r","o","w","s","e","r">>,
    <<"n","o","t","e","p","a","d">>, <<"n","o","t","e","p","a","d","+","+">>, <<"c","o","d","e">>, <<"v","i","s","u","a","l"," ","s","t","u","d","i","o"," ","c","o","d","e">>, <<"v","s"," ","c","o","d","e">>,
    <<"c","a","l","c","u","l","a","t","o","r">>, <<"c","a","l","c">>, <<"p","a","i","n","t">>, <<"m","s","p","a","i","n","t">>, <<"w","o","r","d">>, <<"e","x","c","e","l">>, <<"p","o","w","e","r","p","o","i","n","t">>,
    <<"s","p","o","t","i","f","y">>, <<"d","i","s","c","o","r","d">>, <<"s","t","e","a","m">>, <<"v","l","c">>, <<"m","e","d","i","a"," ","p","l","a","y","e","r">>,
    <<"s","e","t","t","i","n","g","s">>, <<"c","o","n","t","r","o","l"," ","p","a","n","e","l">>, <<"t","a","s","k"," ","m","a","n","a","g","e","r">>, <<"c","m","d">>, <<"c","o","m","m","a","n","d"," ","p","r","o","m","p","t">>,
    <<"p","o","w","e","r","s","h","e","l","l">>, <<"e","x","p","l","o","r","e","r">>, <<"f","i","l","e"," ","e","x","p","l","o","r","e","r">>, <<"w","i","n","d","o","w","s"," ","e","x","p","l","o","r","e","r">> >>

\* app_names of the open path
open_app_names == <<
    <<"c","h","r","o","m","e">>, <<"g","o","o","g","l","e"," ","c","h","r","o","m","e">>, <<"f","i","r","e","f","o","x">>, <<"e","d","g","e">>, <<"m","i","c","r","o","s","o","f","t"," ","e","d","g","e">>, <<"b","r","o","w","s","e","r">>,
    <<"n","o","t","e","p","a","d">>, <<"n","o","t","e","p","a","d","+","+">>, <<"c","o","d","e">>, <<"v","i","s","u","a","l"," ","s","t","u","d","i","o"," ","c","o","d","e">>, <<"v","s"," ","c","o","d","e">>,
    <<"c","a","l","c","u","l","a","t","o","r">>, <<"c","a","l","c">>, <<"p","a","i","n","t">>, <<"m","s","p","a","i","n","t">>, <<"w","o","r","d">>, <<"e","x","c","e","l">>, <<"p","o","w","e","r","p","o","i","n","t">>,
    <<"s","p","o","t","i","f","y">>, <<"d","i","s","c","o","r","d">>, <<"s","t","e","a","m">>, <<"v","l","c">>, <<"m","e","d","i","a"," ","p","l","a","y","e","r">>,
    <<"s","e","t","t","i","n","g","s">>, <<"c","o","n","t","r","o","l"," ","p","a","n","e","l">>, <<"t","a","s","k"," ","m","a","n","a","g","e","r">>, <<"c","m","d">>, <<"c","o","m","m","a","n","d"," ","p","r","o","m","p","t">>,
    <<"p","o","w","e","r","s","h","e","l","l">>, <<"e","x","p","l","o","r","e","r">>, <<"f","i","l","e"," ","e","x","p","l","o","r","e","r">>, <<"w","i","n","d","o","w","s"," ","e","x","p","l","o","r","e","r">> >>

exit_phrases == <<
    <<"e","x","i","t">>, <<"q","u","i","t">>, <<"s","t","o","p">>, <<"e","x","i","t"," ","a","s","s","i","s","t","a","n","t">>, <<"c","l","o","s","e"," ","a","s","s","i","s","t","a","n","t">>,
    <<"q","u","i","t"," ","a","s","s","i","s","t","a","n","t">>, <<"s","t","o","p"," ","a","s","s","i","s","t","a","n","t">>, <<"s","h","u","t"," ","d","o","w","n">>, <<"s","h","u","t","d","o","w","n">> >>

\* the loop `for app in app_names: if app in target or target in app:
\* return (.., app if app in target else target)`: the value returned at the
\* first matching app, None when the loop ends without returning
resolve_app(app_names, target) ==
    LET matching == {i \in 1..Len(app_names) :
                        \/ contains(target, app_names[i])
                        \/ contains(app_names[i], target)}
    IN  IF matching = {} THEN None
        ELSE LET i   == CHOOSE m \in matching : \A n \in matching : m <= n
                 app == app_names[i]
             IN  IF contains(target, app) THEN app ELSE target

\* the target of a text that starts with 'close', filler words removed
close_target(t) ==
    LET parts  == split1(t, <<"c","l","o","s","e">>)
        target == strip(parts[2])
    IN  strip(replace(replace(replace(target, <<"t","h","e">>, <<>>),
                              <<"a","p","p">>, <<>>), <<"a","p","p","l","i","c","a","t","i","o","n">>, <<>>))

\* the target of a text that starts with 'open', filler words removed
open_target(t) ==
    LET parts  == split1(t, <<"o","p","e","n">>)
        target == strip(parts[2])
    IN  strip(replace(replace(replace(replace(target, <<"f","o","l","d","e","r">>, <<>>),
                                      <<"t","h","e">>, <<>>), <<"a","p","p">>, <<>>),
                      <<"a","p","p","l","i","c","a","t","i","o","n">>, <<>>))

\* the file path of a text that starts with 'delete', 'file' removed
delete_target(t) ==
    LET parts     == split1(t, <<"d","e","l","e","t","e">>)
        file_path == strip(parts[2])
    IN  strip(replace(file_path, <<"f","i","l","e">>, <<>>))

\* is_exit with 'close assistant' left to the close rule
is_exit_without_close(t) ==
    \/ \E i \in 1..Len(exit_phrases) :
          exit_phrases[i] = t /\ exit_phrases[i] # <<"c","l","o","s","e"," ","a","s","s","i","s","t","a","n","t">>
    \/ startswith(t, <<"e","x","i","t"," ","a","s","s","i","s","t","a","n","t">>)
    \/ startswith(t, <<"q","u","i","t"," ","a","s","s","i","s","t","a","n","t">>)

\* the condition of the exit rule
is_exit(t) ==
    \/ \E i \in 1..Len(exit_phrases) : exit_phrases[i] = t
    \/ startswith(t, <<"e","x","i","t"," ","a","s","s","i","s","t","a","n","t">>)
    \/ startswith(t, <<"c","l","o","s","e"," ","a","s","s","i","s","t","a","n","t">>)
    \/ startswith(t, <<"q","u","i","t"," ","a","s","s","i","s","t","a","n","t">>)

\* parse_command with the exit rule tried before the close rule
parse_command_exit_first(raw) ==
    LET t == lower(strip(raw))
    IN  IF is_exit(t)
        THEN <<"exit", None>>
        ELSE IF /\ startswith(t, <<"c","l","o","s","e">>)
                /\ Len(split1(t, <<"c","l","o","s","e">>)) > 1
                /\ resolve_app(close_app_names, close_target(t)) # None
        THEN <<"close_app", resolve_app(close_app_names, close_target(t))>>
        ELSE IF startswith(t, <<"o","p","e","n">>) /\ Len(split1(t, <<"o","p","e","n">>)) > 1
        THEN IF resolve_app(open_app_names, open_target(t)) # None
             THEN <<"open_app", resolve_app(open_app_names, open_target(t))>>
             ELSE <<"open_folder", open_target(t)>>
        ELSE IF /\ (startswith(t, <<"d","e","l","e","t","e"," ","f","i","l","e">>) \/ startswith(t, <<"d","e","l","e","t","e">>))
                /\ Len(split1(t, <<"d","e","l","e","t","e">>)) > 1
        THEN <<"delete_file", delete_target(t)>>
        ELSE <<"general", t>>

\* parse_command without the folder default of the open rule
parse_command_open_falls_through(raw) ==
    LET t == lower(strip(raw))
    IN  IF /\ startswith(t, <<"c","l","o","s","e">>)
           /\ Len(split1(t, <<"c","l","o","s","e">>)) > 1
           /\ resolve_app(close_app_names, close_target(t)) # None
        THEN <<"close_app", resolve_app(close_app_names, close_target(t))>>
        ELSE IF is_exit(t)
        THEN <<"exit", None>>
        ELSE IF /\ startswith(t, <<"o","p","e","n">>) /\ Len(split1(t, <<"o","p","e","n">>)) > 1
                /\ resolve_app(open_app_names, open_target(t)) # None
        THEN <<"open_app", resolve_app(open_app_names, open_target(t))>>
        ELSE IF /\ (startswith(t, <<"d","e","l","e","t","e"," ","f","i","l","e">>) \/ startswith(t, <<"d","e","l","e","t","e">>))
                /\ Len(split1(t, <<"d","e","l","e","t","e">>)) > 1
        THEN <<"delete_file", delete_target(t)>>
        ELSE <<"general", t>>

\* parse_command where a close text without a known app ends classification
parse_command_close_aborts(raw) ==
    LET t == lower(strip(raw))
    IN  IF startswith(t, <<"c","l","o","s","e">>) /\ Len(split1(t, <<"c","l","o","s","e">>)) > 1
        THEN IF resolve_app(close_app_names, close_target(t)) # None
             THEN <<"close_app", resolve_app(close_app_names, close_target(t))>>
             ELSE <<"general", t>>
        ELSE IF is_exit(t)
        THEN <<"exit", None>>
        ELSE IF startswith(t, <<"o","p","e","n">>) /\ Len(split1(t, <<"o","p","e","n">>)) > 1
        THEN IF resolve_app(open_app_names, open_target(t)) # None
             THEN <<"open_app", resolve_app(open_app_names, open_target(t))>>
             ELSE <<"open_folder", open_target(t)>>
        ELSE IF /\ (startswith(t, <<"d","e","l","e","t","e"," ","f","i","l","e">>) \/ startswith(t, <<"d","e","l","e","t","e">>))
                /\ Len(split1(t, <<"d","e","l","e","t","e">>)) > 1
        THEN <<"delete_file", delete_target(t)>>
        ELSE <<"general", t>>

\* parse_command(text): the tuple (command_type, command_data)
parse_command(raw) ==
    LET t == lower(strip(raw))
    IN  IF /\ startswith(t, <<"c","l","o","s","e">>)
           /\ Len(split1(t, <<"c","l","o","s","e">>)) > 1
           /\ resolve_app(close_app_names, close_target(t)) # None
        THEN <<"close_app", resolve_app(close_app_names, close_target(t))>>
        ELSE IF is_exit(t)
        THEN <<"exit", None>>
        ELSE IF startswith(t, <<"o","p","e","n">>) /\ Len(split1(t, <<"o","p","e","n">>)) > 1
        THEN IF resolve_app(open_app_names, open_target(t)) # None
             THEN <<"open_app", resolve_app(open_app_names, open_target(t))>>
             ELSE <<"open_folder", open_target(t)>>
        ELSE IF /\ (startswith(t, <<"d","e","l","e","t","e"," ","f","i","l","e">>) \/ startswith(t, <<"d","e","l","e","t","e">>))
                /\ Len(split1(t, <<"d","e","l","e","t","e">>)) > 1
        THEN <<"delete_file", delete_target(t)>>
        ELSE <<"general", t>>

-----------------------------------------------------------------------------
(* Status strings: an f-string is the pair <<format, argument>> *)

Status(format, argument) == <<format, argument>>

Greeting == Status("Hello! I'm your voice assistant. How can I help you today?", <<>>)

ExitFarewell == Status("Goodbye! Have a great day.", <<>>)

InterruptFarewell == Status("Goodbye!", <<>>)

Thinking == Status("Let me think about that...", <<>>)

ConfirmPrompt(name) == Status("Are you sure you want to delete {}? Say yes to confirm.", name)

DeletionCancelled == Status("Deletion cancelled.", <<>>)

IsAFolder(file_path) == Status("'{}' is a folder, not a file. I can only delete files.", file_path)

FileNotFound(file_path) == Status("Sorry, I couldn't find the file '{}'.", file_path)

Deleted(name) == Status("Deleted {} successfully.", name)

PermissionDenied(file_path) == Status("Permission denied. I cannot delete '{}'.", file_path)

DeleteError == Status("Error deleting file: {}", <<>>)

CannotConnect ==
    Status("I cannot connect to Ollama. Please ensure Ollama is running and accessible at http://localhost:11434", <<>>)

OllamaTimedOut == Status("The request to Ollama timed out. Please try again.", <<>>)

OllamaBadStatus(code) == Status("Error: Ollama API returned status code {}", code)

OllamaError == Status("An error occurred while querying Ollama: {}", <<>>)

DefaultAnswer == <<"I"," ","a","p","o","l","o","g","i","z","e",","," ","b","u","t"," ","I"," ","c","o","u","l","d"," ","n","o","t"," ","g","e","n","e","r","a","t","e"," ","a"," ","r","e","s","p","o","n","s","e",".">>

MAX_CONTEXT_LENGTH == 10

-----------------------------------------------------------------------------
(* The filesystem seen through os.path and pathlib *)

\* Path.home()
HOME == <<"C",":","\\","U","s","e","r","s","\\","m","e">>

\* the current working directory
CWD == <<"C",":","\\","a","s","s","i","s","t","a","n","t">>

\* pathlib's `/` and os.path.abspath on a relative path: joining with an
\* empty path gives the base itself
joinpath(base, p) == IF p = <<>> THEN base ELSE base \o <<"\\">> \o p

\* os.path.isabs on Windows: a drive letter, a colon and a separator
isabs(p) ==
    /\ Len(p) >= 3
    /\ p[2] = ":"
    /\ p[3] \in {"\\", "/"}

\* the directories that exist; the program never creates or removes one
Directories == {<<"C",":","\\">>, HOME, CWD, joinpath(HOME, <<"D","o","w","n","l","o","a","d","s">>), joinpath(HOME, <<"d","o","c","s">>)}

\* Windows paths compare case-insensitively
isdir(p) == \E d \in Directories : lower(d) = lower(p)

isfile(fs, p) == \E f \in fs : lower(f) = lower(p)

exists(fs, p) == isfile(fs, p) \/ isdir(p)

\* os.path.basename
RECURSIVE basename(_)
basename(p) ==
    IF p = <<>> THEN <<>>
    ELSE IF p[Len(p)] \in {"\\", "/"} THEN <<>>
    ELSE basename(SubSeq(p, 1, Len(p) - 1)) \o <<p[Len(p)]>>

\* delete_file: the path the handler works on
resolved_path(fs, raw_path) ==
    LET file_path == strip(raw_path)
    IN  IF ~isabs(file_path)
        THEN \* os.path.exists('') is False: the empty path names nothing
             IF file_path # <<>> /\ exists(fs, joinpath(CWD, file_path))
             THEN joinpath(CWD, file_path)
             ELSE joinpath(HOME, file_path)
        ELSE file_path

\* confirmed by any answer at all
confirmed_by_any_answer(answer) ==
    /\ answer # None
    /\ answer # <<>>

\* `confirmation and 'yes' in confirmation.lower()`
confirmed(answer) ==
    /\ answer # None
    /\ answer # <<>>
    /\ contains(lower(answer), <<"y","e","s">>)

-----------------------------------------------------------------------------
(* What the environment can say and answer *)

\* texts the recognizer returns to the session loop
Heard == {
    <<"e","x","i","t">>, <<"o","p","e","n"," ","N","o","t","e","p","a","d">>, <<"o","p","e","n"," ","d","o","w","n","l","o","a","d","s">>, <<"c","l","o","s","e"," ","C","h","r","o","m","e">>,
    <<"d","e","l","e","t","e"," ","f","i","l","e"," ","t","e","s","t",".","t","x","t">>, <<"d","e","l","e","t","e"," ","d","o","c","s">>, <<"d","e","l","e","t","e"," ","f","i","l","e"," ","g","o","n","e",".","t","x","t">>,
    <<"w","h","a","t"," ","i","s"," ","P","y","t","h","o","n">>,
    <<"o","p","e","n">>, <<"c","l","o","s","e"," ","t","h","e"," ","a","p","p">>, <<"d","e","l","e","t","e"," ","f","i","l","e">> }

\* the one question of the runs that fill the conversation context
Questions == { <<"w","h","a","t"," ","i","s"," ","P","y","t","h","o","n">> }

\* texts the recognizer returns to the nested listen of delete_file
Answers == { <<"y","e","s">>, <<"n","o">>, <<"Y","e","s"," ","p","l","e","a","s","e">>, <<"e","x","i","t">>, <<"d","e","l","e","t","e"," ","f","i","l","e"," ","o","t","h","e","r",".","t","x","t">> }

\* the ways listen() fails; each returns None
ListenFailures == {"WaitTimeoutError", "UnknownValueError", "RequestError", "Exception"}

\* the 'response' field of the JSON body of a 200 reply; None: no such field
Replies == { <<"a"," ","l","a","n","g","u","a","g","e">>, None }

\* status codes of a reply that is not a success
BadCodes == { <<"4","0","4">>, <<"5","0","0">> }

NoOutcome == <<"none", None, None>>

\* what requests.post(...) does: raise, or return a response
LLMOutcomes ==
    {<<"ConnectionError", None, None>>, <<"Timeout", None, None>>, <<"Exception", None, None>>}
    \cup {<<"response", code, None>> : code \in BadCodes}
    \cup {<<"response", <<"2","0","0">>, r>> : r \in Replies}

\* a session that asks at most this many questions successfully
MaxTurns == 2

\* a run that fills the conversation context beyond its capacity
MaxQuestions == 12

NoCommand == <<"none", None>>

NoCall == <<"none", None>>

-----------------------------------------------------------------------------
(* The handlers that touch the operating system.  Each operator gives the   *)
(* set of <<status string, OS call>> pairs the handler can end with; which  *)
(* one it is depends on what is installed, what is running and which call   *)
(* raises.                                                                  *)

\* dict lookup: the value stored under key, None when the key is absent
lookup(table, key) ==
    IF \E i \in 1..Len(table) : table[i][1] = key
    THEN table[CHOOSE i \in 1..Len(table) : table[i][1] = key][2]
    ELSE None

app_map == <<
    <<<<"c","h","r","o","m","e">>, <<"c","h","r","o","m","e">>>>, <<<<"g","o","o","g","l","e"," ","c","h","r","o","m","e">>, <<"c","h","r","o","m","e">>>>, <<<<"f","i","r","e","f","o","x">>, <<"f","i","r","e","f","o","x">>>>,
    <<<<"e","d","g","e">>, <<"m","s","e","d","g","e">>>>, <<<<"m","i","c","r","o","s","o","f","t"," ","e","d","g","e">>, <<"m","s","e","d","g","e">>>>, <<<<"b","r","o","w","s","e","r">>, <<"m","s","e","d","g","e">>>>,
    <<<<"n","o","t","e","p","a","d">>, <<"n","o","t","e","p","a","d">>>>, <<<<"n","o","t","e","p","a","d","+","+">>, <<"n","o","t","e","p","a","d","+","+">>>>, <<<<"c","o","d","e">>, <<"c","o","d","e">>>>,
    <<<<"v","i","s","u","a","l"," ","s","t","u","d","i","o"," ","c","o","d","e">>, <<"c","o","d","e">>>>, <<<<"v","s"," ","c","o","d","e">>, <<"c","o","d","e">>>>,
    <<<<"c","a","l","c","u","l","a","t","o","r">>, <<"c","a","l","c">>>>, <<<<"c","a","l","c">>, <<"c","a","l","c">>>>, <<<<"p","a","i","n","t">>, <<"m","s","p","a","i","n","t">>>>,
    <<<<"m","s","p","a","i","n","t">>, <<"m","s","p","a","i","n","t">>>>, <<<<"s","e","t","t","i","n","g","s">>, <<"m","s","-","s","e","t","t","i","n","g","s",":">>>>,
    <<<<"c","o","n","t","r","o","l"," ","p","a","n","e","l">>, <<"c","o","n","t","r","o","l">>>>, <<<<"t","a","s","k"," ","m","a","n","a","g","e","r">>, <<"t","a","s","k","m","g","r">>>>, <<<<"c","m","d">>, <<"c","m","d">>>>,
    <<<<"c","o","m","m","a","n","d"," ","p","r","o","m","p","t">>, <<"c","m","d">>>>, <<<<"p","o","w","e","r","s","h","e","l","l">>, <<"p","o","w","e","r","s","h","e","l","l">>>>,
    <<<<"e","x","p","l","o","r","e","r">>, <<"e","x","p","l","o","r","e","r">>>>, <<<<"f","i","l","e"," ","e","x","p","l","o","r","e","r">>, <<"e","x","p","l","o","r","e","r">>>>,
    <<<<"w","i","n","d","o","w","s"," ","e","x","p","l","o","r","e","r">>, <<"e","x","p","l","o","r","e","r">>>>,
    <<<<"w","o","r","d">>, <<"w","i","n","w","o","r","d">>>>, <<<<"e","x","c","e","l">>, <<"e","x","c","e","l">>>>, <<<<"p","o","w","e","r","p","o","i","n","t">>, <<"p","o","w","e","r","p","n","t">>>> >>

common_paths == <<
    <<"C",":","\\","P","r","o","g","r","a","m"," ","F","i","l","e","s","\\","G","o","o","g","l","e","\\","C","h","r","o","m","e","\\","A","p","p","l","i","c","a","t","i","o","n","\\","c","h","r","o","m","e",".","e","x","e">>,
    <<"C",":","\\","P","r","o","g","r","a","m"," ","F","i","l","e","s"," ","(","x","8","6",")","\\","G","o","o","g","l","e","\\","C","h","r","o","m","e","\\","A","p","p","l","i","c","a","t","i","o","n","\\","c","h","r","o","m","e",".","e","x","e">>,
    <<"C",":","\\","P","r","o","g","r","a","m"," ","F","i","l","e","s","\\","M","o","z","i","l","l","a"," ","F","i","r","e","f","o","x","\\","f","i","r","e","f","o","x",".","e","x","e">>,
    <<"C",":","\\","P","r","o","g","r","a","m"," ","F","i","l","e","s"," ","(","x","8","6",")","\\","M","o","z","i","l","l","a"," ","F","i","r","e","f","o","x","\\","f","i","r","e","f","o","x",".","e","x","e">>,
    <<"C",":","\\","P","r","o","g","r","a","m"," ","F","i","l","e","s","\\","M","i","c","r","o","s","o","f","t","\\","E","d","g","e","\\","A","p","p","l","i","c","a","t","i","o","n","\\","m","s","e","d","g","e",".","e","x","e">>,
    <<"C",":","\\","P","r","o","g","r","a","m"," ","F","i","l","e","s","\\","N","o","t","e","p","a","d","+","+","\\","n","o","t","e","p","a","d","+","+",".","e","x","e">>,
    <<"C",":","\\","P","r","o","g","r","a","m"," ","F","i","l","e","s","\\","M","i","c","r","o","s","o","f","t"," ","O","f","f","i","c","e","\\","r","o","o","t","\\","O","f","f","i","c","e","1","6","\\","W","I","N","W","O","R","D",".","E","X","E">>,
    <<"C",":","\\","P","r","o","g","r","a","m"," ","F","i","l","e","s","\\","M","i","c","r","o","s","o","f","t"," ","O","f","f","i","c","e","\\","r","o","o","t","\\","O","f","f","i","c","e","1","6","\\","E","X","C","E","L",".","E","X","E">>,
    <<"C",":","\\","P","r","o","g","r","a","m"," ","F","i","l","e","s","\\","M","i","c","r","o","s","o","f","t"," ","O","f","f","i","c","e","\\","r","o","o","t","\\","O","f","f","i","c","e","1","6","\\","P","O","W","E","R","P","N","T",".","E","X","E">>,
    joinpath(HOME, <<"A","p","p","D","a","t","a","\\","L","o","c","a","l","\\","P","r","o","g","r","a","m","s","\\","M","i","c","r","o","s","o","f","t"," ","V","S"," ","C","o","d","e","\\","C","o","d","e",".","e","x","e">>) >>

OpenError == Status("Error opening application: {}", <<>>)

\* open_app(app_name)
open_app(app_name) ==
    LET app_name_lower == lower(strip(app_name))
        exe     == IF lookup(app_map, app_name_lower) # None
                   THEN lookup(app_map, app_name_lower)
                   ELSE app_name
        opened  == Status("Opened {}.", app_name)
        located == {i \in 1..Len(common_paths) :
                       \/ contains(lower(common_paths[i]), app_name_lower)
                       \/ contains(lower(common_paths[i]), exe)}
    IN  {<<OpenError, NoCall>>} \cup
        IF exe = <<"m","s","-","s","e","t","t","i","n","g","s",":">>
        THEN {<<Status("Opened Settings.", <<>>), <<"startfile", exe>>>>}
        ELSE IF exe = <<"e","x","p","l","o","r","e","r">>
        THEN {<<Status("Opened File Explorer.", <<>>), <<"Popen", exe>>>>}
        ELSE IF exe = <<"c","o","n","t","r","o","l">>
        THEN {<<Status("Opened Control Panel.", <<>>), <<"Popen", exe>>>>}
        ELSE IF exe = <<"t","a","s","k","m","g","r">>
        THEN {<<Status("Opened Task Manager.", <<>>), <<"Popen", exe>>>>}
        ELSE IF exe \in {<<"c","m","d">>, <<"p","o","w","e","r","s","h","e","l","l">>}
        THEN {<<Status("Opened {}.", exe), <<"Popen", exe>>>>}
        ELSE \* found on PATH (shutil.which finds nothing for an empty name),
             \* else the first installed common path that matches, else the
             \* `start` command, else os.startfile
             (IF exe # <<>> THEN {<<opened, <<"Popen", exe>>>>} ELSE {})
             \cup {<<opened, <<"Popen", common_paths[i]>>>> : i \in located}
             \cup {<<opened, <<"start", exe>>>>, <<opened, <<"startfile", exe>>>>}
             \cup {<<Status("Sorry, I couldn't find or open '{}'. Please make sure it's installed.",
                            app_name), NoCall>>}

process_map == <<
    <<<<"c","h","r","o","m","e">>, <<"c","h","r","o","m","e",".","e","x","e">>>>, <<<<"g","o","o","g","l","e"," ","c","h","r","o","m","e">>, <<"c","h","r","o","m","e",".","e","x","e">>>>,
    <<<<"f","i","r","e","f","o","x">>, <<"f","i","r","e","f","o","x",".","e","x","e">>>>, <<<<"e","d","g","e">>, <<"m","s","e","d","g","e",".","e","x","e">>>>,
    <<<<"m","i","c","r","o","s","o","f","t"," ","e","d","g","e">>, <<"m","s","e","d","g","e",".","e","x","e">>>>, <<<<"n","o","t","e","p","a","d">>, <<"n","o","t","e","p","a","d",".","e","x","e">>>>,
    <<<<"n","o","t","e","p","a","d","+","+">>, <<"n","o","t","e","p","a","d","+","+",".","e","x","e">>>>, <<<<"c","o","d","e">>, <<"C","o","d","e",".","e","x","e">>>>,
    <<<<"v","i","s","u","a","l"," ","s","t","u","d","i","o"," ","c","o","d","e">>, <<"C","o","d","e",".","e","x","e">>>>, <<<<"v","s"," ","c","o","d","e">>, <<"C","o","d","e",".","e","x","e">>>>,
    <<<<"c","a","l","c","u","l","a","t","o","r">>, <<"C","a","l","c","u","l","a","t","o","r",".","e","x","e">>>>, <<<<"c","a","l","c">>, <<"C","a","l","c","u","l","a","t","o","r",".","e","x","e">>>>,
    <<<<"p","a","i","n","t">>, <<"m","s","p","a","i","n","t",".","e","x","e">>>>, <<<<"m","s","p","a","i","n","t">>, <<"m","s","p","a","i","n","t",".","e","x","e">>>>,
    <<<<"w","o","r","d">>, <<"W","I","N","W","O","R","D",".","E","X","E">>>>, <<<<"e","x","c","e","l">>, <<"E","X","C","E","L",".","E","X","E">>>>,
    <<<<"p","o","w","e","r","p","o","i","n","t">>, <<"P","O","W","E","R","P","N","T",".","E","X","E">>>>, <<<<"s","p","o","t","i","f","y">>, <<"S","p","o","t","i","f","y",".","e","x","e">>>>,
    <<<<"d","i","s","c","o","r","d">>, <<"D","i","s","c","o","r","d",".","e","x","e">>>>, <<<<"s","t","e","a","m">>, <<"s","t","e","a","m",".","e","x","e">>>>, <<<<"v","l","c">>, <<"v","l","c",".","e","x","e">>>>,
    <<<<"s","e","t","t","i","n","g","s">>, <<"S","y","s","t","e","m","S","e","t","t","i","n","g","s",".","e","x","e">>>>, <<<<"c","m","d">>, <<"c","m","d",".","e","x","e">>>>,
    <<<<"c","o","m","m","a","n","d"," ","p","r","o","m","p","t">>, <<"c","m","d",".","e","x","e">>>>, <<<<"p","o","w","e","r","s","h","e","l","l">>, <<"p","o","w","e","r","s","h","e","l","l",".","e","x","e">>>> >>

\* close_app(app_name)
close_app(app_name) ==
    LET app_name_lower == lower(strip(app_name))
        process_name == IF lookup(process_map, app_name_lower) # None
                        THEN lookup(process_map, app_name_lower)
                        ELSE app_name \o <<".","e","x","e">>
        closed      == Status("Closed {}.", app_name)
        not_running == Status("{} is not currently running.", app_name)
    IN  { \* psutil: some process of that name was terminated, or none was found
          <<closed, <<"terminate", process_name>>>>,
          <<not_running, NoCall>>,
          \* without psutil: taskkill
          <<closed, <<"taskkill", process_name>>>>,
          <<not_running, <<"taskkill", process_name>>>>,
          <<Status("Could not close {}. It may not be running or I don't have permission.",
                   app_name), <<"taskkill", process_name>>>>,
          <<Status("Error closing {}: {}", app_name), NoCall>> }

folder_map == <<
    <<<<"d","o","w","n","l","o","a","d","s">>, joinpath(HOME, <<"D","o","w","n","l","o","a","d","s">>)>>,
    <<<<"d","o","c","u","m","e","n","t","s">>, joinpath(HOME, <<"D","o","c","u","m","e","n","t","s">>)>>,
    <<<<"p","i","c","t","u","r","e","s">>, joinpath(HOME, <<"P","i","c","t","u","r","e","s">>)>>,
    <<<<"m","u","s","i","c">>, joinpath(HOME, <<"M","u","s","i","c">>)>>,
    <<<<"v","i","d","e","o","s">>, joinpath(HOME, <<"V","i","d","e","o","s">>)>>,
    <<<<"d","e","s","k","t","o","p">>, joinpath(HOME, <<"D","e","s","k","t","o","p">>)>>,
    <<<<"h","o","m","e">>, HOME>> >>

\* open_folder(folder_name)
open_folder(folder_name) ==
    LET folder_name_lower == lower(folder_name)
        folder_path == IF lookup(folder_map, folder_name_lower) # None
                       THEN lookup(folder_map, folder_name_lower)
                       ELSE IF isabs(folder_name) THEN folder_name
                       ELSE joinpath(HOME, folder_name)
    IN  IF isdir(folder_path)
        THEN {<<Status("Opened {} folder.", folder_name), <<"startfile", folder_path>>>>,
              <<Status("Error opening folder: {}", <<>>), NoCall>>}
        ELSE {<<Status("Sorry, I couldn't find the folder '{}'.", folder_name), NoCall>>}

-----------------------------------------------------------------------------
(* listen, delete_file and query_ollama *)

\* listen(): <<how it ended, what it returns>>; the text comes back lower-cased
listen(utterances) ==
    {<<"ok", lower(u)>> : u \in utterances} \cup {<<f, None>> : f \in ListenFailures}

\* `if text:` - neither None nor the empty str
truthy(t) == t # None /\ t # <<>>

\* delete_file_check without the test for a directory
delete_file_check_without_isdir(fs, raw_path) ==
    LET p == resolved_path(fs, raw_path)
    IN  IF ~exists(fs, p) THEN "missing"
        ELSE "confirm"

\* delete_file up to the confirmation: what the checks on the path decide
delete_file_check(fs, raw_path) ==
    LET p == resolved_path(fs, raw_path)
    IN  IF ~exists(fs, p) THEN "missing"
        ELSE IF isdir(p) THEN "folder"
        ELSE "confirm"

\* remember with pop() in place of pop(0)
remember_pop_last(context, turn) ==
    LET appended == Append(context, turn)
    IN  IF Len(appended) > MAX_CONTEXT_LENGTH
        THEN SubSeq(appended, 1, Len(appended) - 1)
        ELSE appended

\* the update of CONVERSATION_CONTEXT after an answer
remember(context, turn) ==
    LET appended == Append(context, turn)
    IN  IF Len(appended) > MAX_CONTEXT_LENGTH THEN Tail(appended) ELSE appended

\* query_ollama that records a failure as a turn
query_ollama_records_failures(context, prompt, outcome) ==
    IF outcome[1] = "ConnectionError"
    THEN <<CannotConnect, remember(context, [user |-> prompt, assistant |-> <<"e","r","r","o","r">>])>>
    ELSE IF outcome[1] = "Timeout" THEN <<OllamaTimedOut, context>>
    ELSE IF outcome[1] = "Exception" THEN <<OllamaError, context>>
    ELSE IF outcome[2] = <<"2","0","0">>
    THEN LET answer == IF outcome[3] # None THEN outcome[3] ELSE DefaultAnswer
         IN  <<Status("{}", answer), remember(context, [user |-> prompt, assistant |-> answer])>>
    ELSE <<OllamaBadStatus(outcome[2]), context>>

\* query_ollama(prompt) given what requests.post did:
\* <<the returned string, the new CONVERSATION_CONTEXT>>
query_ollama(context, prompt, outcome) ==
    IF outcome[1] = "ConnectionError" THEN <<CannotConnect, context>>
    ELSE IF outcome[1] = "Timeout" THEN <<OllamaTimedOut, context>>
    ELSE IF outcome[1] = "Exception" THEN <<OllamaError, context>>
    ELSE IF outcome[2] = <<"2","0","0">>
    THEN LET answer == IF outcome[3] # None THEN outcome[3] ELSE DefaultAnswer
         IN  <<Status("{}", answer), remember(context, [user |-> prompt, assistant |-> answer])>>
    ELSE <<OllamaBadStatus(outcome[2]), context>>

-----------------------------------------------------------------------------
(* The session: run, process_command and the handlers, step by step *)

InitialFiles == {
    {joinpath(CWD, <<"t","e","s","t",".","t","x","t">>)},
    {joinpath(HOME, <<"t","e","s","t",".","t","x","t">>)},
    {joinpath(CWD, <<"t","e","s","t",".","t","x","t">>), joinpath(HOME, <<"t","e","s","t",".","t","x","t">>)} }

Init ==
    /\ pc = "greeting"
    /\ running = TRUE
    /\ text = None
    /\ command = NoCommand
    /\ response = None
    /\ confirmation = None
    /\ CONVERSATION_CONTEXT = <<>>
    /\ turns = <<>>
    /\ last_spoken = None
    /\ llm = NoOutcome
    /\ files \in InitialFiles
    /\ os_call = NoCall
    /\ interrupted = FALSE

\* the positions inside the try block of run's loop
InTry == {"listen", "sleep", "process_command", "dispatch", "delete_listen",
          "delete_decide", "query_ollama", "speak_response"}

\* run(): the greeting spoken before the loop
Greet ==
    /\ pc = "greeting"
    /\ last_spoken' = Greeting
    /\ pc' = "loop"
    /\ UNCHANGED <<running, text, command, response, confirmation,
                   CONVERSATION_CONTEXT, turns, llm, files, os_call, interrupted>>

\* run(): `while self.running:`
LoopTest ==
    /\ pc = "loop"
    /\ pc' = IF running THEN "listen" ELSE "stopped"
    /\ UNCHANGED <<running, text, command, response, confirmation,
                   CONVERSATION_CONTEXT, turns, last_spoken, llm, files, os_call,
                   interrupted>>

\* Listen with a failed listen reported aloud, the way run's
\* `except Exception` reports an error
Listen_failure_spoken(utterances) ==
    /\ pc = "listen"
    /\ \E heard \in listen(utterances) :
          /\ text' = heard[2]
          /\ pc' = IF truthy(heard[2]) THEN "process_command" ELSE "sleep"
          /\ last_spoken' = IF truthy(heard[2]) THEN last_spoken
                            ELSE Status("I encountered an error. Please try again.", <<>>)
    /\ UNCHANGED <<running, command, response, confirmation,
                   CONVERSATION_CONTEXT, turns, llm, files, os_call, interrupted>>

\* run(): `text = self.listen()` and the test `if text:`
Listen(utterances) ==
    /\ pc = "listen"
    /\ \E heard \in listen(utterances) :
          /\ text' = heard[2]
          /\ pc' = IF truthy(heard[2]) THEN "process_command" ELSE "sleep"
    /\ UNCHANGED <<running, command, response, confirmation,
                   CONVERSATION_CONTEXT, turns, last_spoken, llm, files, os_call,
                   interrupted>>

\* run(): `time.sleep(0.5)` after a listen that returned nothing
Sleep ==
    /\ pc = "sleep"
    /\ pc' = "loop"
    /\ UNCHANGED <<running, text, command, response, confirmation,
                   CONVERSATION_CONTEXT, turns, last_spoken, llm, files, os_call,
                   interrupted>>

\* process_command(): `command_type, command_data = self.parse_command(text)`
ProcessCommand ==
    /\ pc = "process_command"
    /\ truthy(text)
    /\ command' = parse_command(text)
    /\ pc' = "dispatch"
    /\ UNCHANGED <<running, text, response, confirmation,
                   CONVERSATION_CONTEXT, turns, last_spoken, llm, files, os_call,
                   interrupted>>

\* process_command(): the 'exit' branch; the iteration ends
Exit ==
    /\ pc = "dispatch"
    /\ command[1] = "exit"
    /\ last_spoken' = ExitFarewell
    /\ running' = FALSE
    /\ pc' = "loop"
    /\ text' = None
    /\ command' = NoCommand
    /\ UNCHANGED <<response, confirmation, CONVERSATION_CONTEXT, turns, llm,
                   files, os_call, interrupted>>

\* process_command(): the 'open_app' branch up to the handler's return
OpenApp ==
    /\ pc = "dispatch"
    /\ command[1] = "open_app"
    /\ \E end \in open_app(command[2]) :
          /\ response' = end[1]
          /\ os_call' = end[2]
    /\ pc' = "speak_response"
    /\ UNCHANGED <<running, text, command, confirmation,
                   CONVERSATION_CONTEXT, turns, last_spoken, llm, files, interrupted>>

\* process_command(): the 'close_app' branch up to the handler's return
CloseApp ==
    /\ pc = "dispatch"
    /\ command[1] = "close_app"
    /\ \E end \in close_app(command[2]) :
          /\ response' = end[1]
          /\ os_call' = end[2]
    /\ pc' = "speak_response"
    /\ UNCHANGED <<running, text, command, confirmation,
                   CONVERSATION_CONTEXT, turns, last_spoken, llm, files, interrupted>>

\* OpenFolder with a handler that lets the error of os.startfile leave the loop
OpenFolder_error_propagates ==
    /\ pc = "dispatch"
    /\ command[1] = "open_folder"
    /\ \E end \in open_folder(command[2]) :
          /\ response' = end[1]
          /\ os_call' = end[2]
          /\ pc' = IF end[1][1] = "Error opening folder: {}"
                   THEN "stopped" ELSE "speak_response"
    /\ UNCHANGED <<running, text, command, confirmation,
                   CONVERSATION_CONTEXT, turns, last_spoken, llm, files, interrupted>>

\* process_command(): the 'open_folder' branch up to the handler's return
OpenFolder ==
    /\ pc = "dispatch"
    /\ command[1] = "open_folder"
    /\ \E end \in open_folder(command[2]) :
          /\ response' = end[1]
          /\ os_call' = end[2]
    /\ pc' = "speak_response"
    /\ UNCHANGED <<running, text, command, confirmation,
                   CONVERSATION_CONTEXT, turns, last_spoken, llm, files, interrupted>>

\* delete_file(): from the call to the return of a refusal, or to the spoken
\* confirmation prompt
DeleteFile ==
    /\ pc = "dispatch"
    /\ command[1] = "delete_file"
    /\ LET file_path == strip(command[2])
           check     == delete_file_check(files, command[2])
       IN  IF check = "missing"
           THEN /\ response' = FileNotFound(file_path)
                /\ pc' = "speak_response"
                /\ UNCHANGED last_spoken
           ELSE IF check = "folder"
           THEN /\ response' = IsAFolder(file_path)
                /\ pc' = "speak_response"
                /\ UNCHANGED last_spoken
           ELSE /\ last_spoken' = ConfirmPrompt(basename(resolved_path(files, command[2])))
                /\ pc' = "delete_listen"
                /\ UNCHANGED response
    /\ UNCHANGED <<running, text, command, confirmation,
                   CONVERSATION_CONTEXT, turns, llm, files, os_call, interrupted>>

\* delete_file(): `confirmation = self.listen()`
DeleteListen(answers) ==
    /\ pc = "delete_listen"
    /\ \E heard \in listen(answers) : confirmation' = heard[2]
    /\ pc' = "delete_decide"
    /\ UNCHANGED <<running, text, command, response,
                   CONVERSATION_CONTEXT, turns, last_spoken, llm, files, os_call,
                   interrupted>>

\* DeleteDecide that also treats the answer as a command: an exit phrase
\* given as the answer ends the session
DeleteDecide_answer_dispatched ==
    /\ pc = "delete_decide"
    /\ LET p == resolved_path(files, command[2])
       IN  IF confirmed(confirmation)
           THEN \/ /\ files' = {f \in files : lower(f) # lower(p)}
                   /\ os_call' = <<"remove", p>>
                   /\ response' = Deleted(basename(p))
                \/ /\ response' = PermissionDenied(strip(command[2]))
                   /\ UNCHANGED <<files, os_call>>
                \/ /\ response' = DeleteError
                   /\ UNCHANGED <<files, os_call>>
           ELSE /\ response' = DeletionCancelled
                /\ UNCHANGED <<files, os_call>>
    /\ running' = IF truthy(confirmation) /\ parse_command(confirmation)[1] = "exit"
                  THEN FALSE ELSE running
    /\ pc' = "speak_response"
    /\ UNCHANGED <<text, command, confirmation,
                   CONVERSATION_CONTEXT, turns, last_spoken, llm, interrupted>>

\* delete_file(): the test of the confirmation, os.remove and the return
DeleteDecide ==
    /\ pc = "delete_decide"
    /\ LET p == resolved_path(files, command[2])
       IN  IF confirmed(confirmation)
           THEN \/ /\ files' = {f \in files : lower(f) # lower(p)}
                   /\ os_call' = <<"remove", p>>
                   /\ response' = Deleted(basename(p))
                \/ /\ response' = PermissionDenied(strip(command[2]))
                   /\ UNCHANGED <<files, os_call>>
                \/ /\ response' = DeleteError
                   /\ UNCHANGED <<files, os_call>>
           ELSE /\ response' = DeletionCancelled
                /\ UNCHANGED <<files, os_call>>
    /\ pc' = "speak_response"
    /\ UNCHANGED <<running, text, command, confirmation,
                   CONVERSATION_CONTEXT, turns, last_spoken, llm, interrupted>>

\* process_command(): the 'general' branch up to the call of query_ollama
General ==
    /\ pc = "dispatch"
    /\ command[1] = "general"
    /\ last_spoken' = Thinking
    /\ pc' = "query_ollama"
    /\ UNCHANGED <<running, text, command, response, confirmation,
                   CONVERSATION_CONTEXT, turns, llm, files, os_call, interrupted>>

\* query_ollama(text); at most max_turns answers are ever given
QueryOllama(max_turns) ==
    /\ pc = "query_ollama"
    /\ \E outcome \in LLMOutcomes :
          /\ (outcome[1] = "response" /\ outcome[2] = <<"2","0","0">>) => Len(turns) < max_turns
          /\ llm' = outcome
          /\ response' = query_ollama(CONVERSATION_CONTEXT, text, outcome)[1]
          /\ CONVERSATION_CONTEXT' = query_ollama(CONVERSATION_CONTEXT, text, outcome)[2]
          /\ turns' = IF outcome[1] = "response" /\ outcome[2] = <<"2","0","0">>
                      THEN Append(turns, [user |-> text,
                                          assistant |-> IF outcome[3] # None
                                                        THEN outcome[3]
                                                        ELSE DefaultAnswer])
                      ELSE turns
    /\ pc' = "speak_response"
    /\ UNCHANGED <<running, text, command, confirmation, last_spoken, files,
                   os_call, interrupted>>

\* process_command(): `self.speak(response)`; the iteration ends and the
\* locals of run, process_command and the handler are dead
SpeakResponse ==
    /\ pc = "speak_response"
    /\ last_spoken' = response
    /\ pc' = "loop"
    /\ text' = None
    /\ command' = NoCommand
    /\ response' = None
    /\ confirmation' = None
    /\ llm' = NoOutcome
    /\ os_call' = NoCall
    /\ UNCHANGED <<running, CONVERSATION_CONTEXT, turns, files, interrupted>>

\* Ctrl+C: inside the try block it is caught by `except KeyboardInterrupt`;
\* anywhere else nothing catches it (speak, listen, the handlers and main
\* catch Exception only) and it ends the process
KeyboardInterrupt ==
    /\ pc # "stopped"
    /\ interrupted' = TRUE
    /\ pc' = IF pc \in InTry THEN "except_KeyboardInterrupt" ELSE "stopped"
    /\ UNCHANGED <<running, text, command, response, confirmation,
                   CONVERSATION_CONTEXT, turns, last_spoken, llm, files, os_call>>

\* run(): `self.speak("Goodbye!")` and `break`
Farewell ==
    /\ pc = "except_KeyboardInterrupt"
    /\ last_spoken' = InterruptFarewell
    /\ pc' = "stopped"
    /\ UNCHANGED <<running, text, command, response, confirmation,
                   CONVERSATION_CONTEXT, turns, llm, files, os_call, interrupted>>

Next ==
    \/ Greet
    \/ LoopTest
    \/ Listen(Heard)
    \/ Sleep
    \/ ProcessCommand
    \/ Exit
    \/ OpenApp
    \/ CloseApp
    \/ OpenFolder
    \/ DeleteFile
    \/ DeleteListen(Answers)
    \/ DeleteDecide
    \/ General
    \/ QueryOllama(MaxTurns)
    \/ SpeakResponse
    \/ KeyboardInterrupt
    \/ Farewell

Spec == Init /\ [][Next]_vars

-----------------------------------------------------------------------------
(* parse_command on its own: every text the classifier may be given *)

Vocabulary == {
    <<"c","l","o","s","e">>, <<"o","p","e","n">>, <<"d","e","l","e","t","e">>, <<"f","i","l","e">>, <<"t","h","e">>, <<"a","p","p">>, <<"a","p","p","l","i","c","a","t","i","o","n">>,
    <<"f","o","l","d","e","r">>, <<"a","s","s","i","s","t","a","n","t">>, <<"c","h","r","o","m","e">>, <<"n","o","t","e","p","a","d">>, <<"d","o","w","n","l","o","a","d","s">>,
    <<"t","e","s","t",".","t","x","t">>, <<"p","r","o","f","i","l","e",".","t","x","t">> }

\* texts of at most this many words
MaxWords == 3

\* ' '.join(words)
RECURSIVE join(_)
join(words) ==
    IF Len(words) = 0 THEN <<>>
    ELSE IF Len(words) = 1 THEN words[1]
    ELSE words[1] \o <<" ">> \o join(Tail(words))

ParseInputs ==
    {exit_phrases[i] : i \in 1..Len(exit_phrases)}
    \cup {<<" "," ","O","p","e","n"," ","N","o","t","e","p","a","d"," ">>, <<"C","l","o","s","e"," ","G","o","o","g","l","e"," ","C","h","r","o","m","e">>, <<"w","h","a","t"," ","i","s"," ","P","y","t","h","o","n">>, <<"t","e","l","l"," ","m","e"," ","a"," ","j","o","k","e">>}
    \cup {<<"o","p","e","n"," ","g","o","o","g","l","e"," ","c","h","r","o","m","e">>, <<"o","p","e","n"," ","c","a","l","c">>, <<"c","l","o","s","e"," ","c","a","l","c">>, <<"c","l","o","s","e"," ","n","o","t","e","p","a","d","+","+">>}
    \cup {join(words) : words \in UNION {[1..n -> Vocabulary] : n \in 1..MaxWords}}

InitParse ==
    /\ pc = "process_command"
    /\ running = TRUE
    /\ text \in ParseInputs
    /\ command = NoCommand
    /\ response = None
    /\ confirmation = None
    /\ CONVERSATION_CONTEXT = <<>>
    /\ turns = <<>>
    /\ last_spoken = Greeting
    /\ llm = NoOutcome
    /\ files \in {{joinpath(HOME, <<"t","e","s","t",".","t","x","t">>)}}
    /\ os_call = NoCall
    /\ interrupted = FALSE

NextParse == ProcessCommand

SpecParse == InitParse /\ [][NextParse]_vars

-----------------------------------------------------------------------------
(* A session of questions only, long enough to overfill the context *)

InitContext == Init /\ files = {joinpath(HOME, <<"t","e","s","t",".","t","x","t">>)}

NextContext ==
    \/ Greet
    \/ LoopTest
    \/ Listen(Questions)
    \/ Sleep
    \/ ProcessCommand
    \/ General
    \/ QueryOllama(MaxQuestions)
    \/ SpeakResponse

SpecContext == InitContext /\ [][NextContext]_vars

-----------------------------------------------------------------------------
(* Properties *)

\* the text parse_command works on: stripped and lower-cased
Normal(t) == lower(strip(t))

C1_Phrases == {
    <<"e","x","i","t">>, <<"q","u","i","t">>, <<"s","t","o","p">>, <<"e","x","i","t"," ","a","s","s","i","s","t","a","n","t">>, <<"c","l","o","s","e"," ","a","s","s","i","s","t","a","n","t">>,
    <<"q","u","i","t"," ","a","s","s","i","s","t","a","n","t">>, <<"s","t","o","p"," ","a","s","s","i","s","t","a","n","t">>, <<"s","h","u","t"," ","d","o","w","n">>, <<"s","h","u","t","d","o","w","n">> }

\* C1: every text of the fixed exit-phrase set is classified as the exit
\* command, "close assistant" included although the close rule sees it first.
C1_ExitPhrasesGiveExit ==
    (pc = "dispatch" /\ text \in C1_Phrases) => command = <<"exit", None>>

C1_Witness ==
    /\ pc = "dispatch"
    /\ text = <<"c","l","o","s","e"," ","a","s","s","i","s","t","a","n","t">>
    /\ command = <<"exit", None>>

\* C2: a text that starts with "close" and whose remainder resolves to an
\* application alias is classified as close_app with the resolved target,
\* never as exit, also when it starts with an exit phrase; "close chrome"
\* gives close_app("chrome").
C2_CloseBeforeExit ==
    pc = "dispatch" =>
        /\ (/\ startswith(Normal(text), <<"c","l","o","s","e">>)
            /\ resolve_app(close_app_names, close_target(Normal(text))) # None)
           => command = <<"close_app",
                          resolve_app(close_app_names, close_target(Normal(text)))>>
        /\ text = <<"c","l","o","s","e"," ","c","h","r","o","m","e">> => command = <<"close_app", <<"c","h","r","o","m","e">>>>

C2_Witness ==
    /\ pc = "dispatch"
    /\ text = <<"c","l","o","s","e"," ","a","s","s","i","s","t","a","n","t"," ","c","h","r","o","m","e">>
    /\ command = <<"close_app", <<"c","h","r","o","m","e">>>>

\* C3: a text that starts with "open" is classified as open_app with the
\* resolved alias when its remainder resolves, and as open_folder with the
\* remainder otherwise; "open notepad" gives open_app("notepad") and
\* "open downloads" gives open_folder("downloads").
C3_OpenAppElseFolder ==
    pc = "dispatch" =>
        /\ startswith(Normal(text), <<"o","p","e","n">>) =>
              IF resolve_app(open_app_names, open_target(Normal(text))) # None
              THEN command = <<"open_app",
                               resolve_app(open_app_names, open_target(Normal(text)))>>
              ELSE command = <<"open_folder", open_target(Normal(text))>>
        /\ text = <<"o","p","e","n"," ","n","o","t","e","p","a","d">> => command = <<"open_app", <<"n","o","t","e","p","a","d">>>>
        /\ text = <<"o","p","e","n"," ","d","o","w","n","l","o","a","d","s">> => command = <<"open_folder", <<"d","o","w","n","l","o","a","d","s">>>>

C3_Witness ==
    /\ pc = "dispatch"
    /\ text = <<"o","p","e","n"," ","d","o","w","n","l","o","a","d","s"," ","f","o","l","d","e","r">>
    /\ command = <<"open_folder", <<"d","o","w","n","l","o","a","d","s">>>>

\* C4: for every file name F (a word with an extension), "delete file " + F
\* is classified as delete_file with payload exactly F.
C4_DeletePayloadIsFileName ==
    \A F \in {w \in Vocabulary : contains(w, <<".">>)} :
        (pc = "dispatch" /\ text = <<"d","e","l","e","t","e"," ","f","i","l","e"," ">> \o F)
        => command = <<"delete_file", F>>

\* C5: the context holds exactly the most recent min(10, k) of the k turns
\* appended so far, in insertion order.
C5_ContextIsLastTen ==
    LET k == Len(turns)
        n == IF k < 10 THEN k ELSE 10
    IN  /\ Len(CONVERSATION_CONTEXT) <= 10
        /\ CONVERSATION_CONTEXT = SubSeq(turns, k - n + 1, k)

C5_Witness ==
    /\ Len(turns) = 11
    /\ Len(CONVERSATION_CONTEXT) = 10
    /\ turns[1] # turns[2]
    /\ turns[10] # turns[11]
    /\ CONVERSATION_CONTEXT[1] = turns[2]
    /\ CONVERSATION_CONTEXT[10] = turns[11]

\* C6: a file is removed only by delete_file, after the confirmation prompt
\* was spoken and the nested listen returned a text containing "yes"; with
\* any other answer, or none, nothing is removed and the status is the
\* cancelled message.
C6_DeleteOnlyOnYes ==
    [][/\ files' # files =>
            /\ pc = "delete_decide"
            /\ last_spoken = ConfirmPrompt(basename(resolved_path(files, command[2])))
            /\ confirmation # None
            /\ contains(confirmation, <<"y","e","s">>)
            /\ files' = files \ {resolved_path(files, command[2])}
       /\ (/\ pc = "delete_decide"
           /\ pc' = "speak_response"
           /\ (confirmation = None \/ ~contains(confirmation, <<"y","e","s">>)))
          => (files' = files /\ response' = Status("Deletion cancelled.", <<>>))
      ]_vars

C6_Witness ==
    /\ pc = "speak_response"
    /\ command = <<"delete_file", <<"t","e","s","t",".","t","x","t">>>>
    /\ confirmation = <<"y","e","s"," ","p","l","e","a","s","e">>
    /\ os_call[1] = "remove"
    /\ response = Deleted(<<"t","e","s","t",".","t","x","t">>)
    /\ ~isfile(files, os_call[2])

\* C7: when the path resolves to a directory the handler returns the
\* cannot-delete-a-folder status at once: nothing is removed, no prompt is
\* spoken and no nested listen is performed.
C7_FolderIsRefused ==
    /\ [][(/\ pc = "dispatch"
           /\ command[1] = "delete_file"
           /\ isdir(resolved_path(files, command[2]))
           /\ ~interrupted')
          => /\ pc' = "speak_response"
             /\ response' = Status("'{}' is a folder, not a file. I can only delete files.",
                                   strip(command[2]))
             /\ UNCHANGED <<files, last_spoken, confirmation, os_call>>
         ]_vars
    /\ [](pc \in {"delete_listen", "delete_decide"}
          => ~isdir(resolved_path(files, command[2])))

C7_Witness ==
    /\ pc = "speak_response"
    /\ command = <<"delete_file", <<"d","o","c","s">>>>
    /\ response = IsAFolder(<<"d","o","c","s">>)
    /\ confirmation = None
    /\ os_call = NoCall

\* C8: a connection error, a timeout and a non-200 status each give their own
\* status string, append no turn to the context and leave the session
\* running.
C8_LLMFailureIsRecoverable ==
    [][(pc = "query_ollama" /\ pc' = "speak_response" /\ llm'[2] # <<"2","0","0">>)
       => /\ CONVERSATION_CONTEXT' = CONVERSATION_CONTEXT
          /\ running /\ running'
          /\ llm'[1] = "ConnectionError" <=> response' = CannotConnect
          /\ llm'[1] = "Timeout" <=> response' = OllamaTimedOut
          /\ llm'[1] = "response" <=> response' = OllamaBadStatus(llm'[2])
      ]_vars

C8_Witness ==
    /\ pc = "speak_response"
    /\ llm[1] = "ConnectionError"
    /\ response = CannotConnect
    /\ Len(CONVERSATION_CONTEXT) = 1
    /\ running

\* C9: an interruption in any state after startup ends with the farewell
\* spoken and the session stopped.
C9_InterruptSpeaksFarewell ==
    (interrupted /\ pc = "stopped") => last_spoken = InterruptFarewell

\* C10: the session stops only through a dispatched exit command or an
\* interruption: running is cleared by the exit branch alone, and the loop is
\* left only with running cleared or on an interruption.
C10_StopsOnlyOnExitOrInterrupt ==
    [][/\ (running /\ ~running') => (pc = "dispatch" /\ command[1] = "exit")
       /\ (pc # "stopped" /\ pc' = "stopped") => (~running \/ interrupted')
      ]_vars

C10_Witness ==
    /\ pc = "listen"
    /\ running
    /\ ~interrupted
    /\ last_spoken = Status("Error opening folder: {}", <<>>)

C11_NotFound == {
    "Sorry, I couldn't find or open '{}'. Please make sure it's installed.",
    "{} is not currently running.",
    "Sorry, I couldn't find the folder '{}'.",
    "Sorry, I couldn't find the file '{}'." }

\* the statuses of a handler whose OS call raised
C11_Raised == {
    "Error opening application: {}", "Error closing {}: {}",
    "Error opening folder: {}", "Error deleting file: {}",
    "Permission denied. I cannot delete '{}'." }

\* C11: a command whose payload is empty after the prefix and the filler
\* words are stripped is handled as not found: unless an OS call raises, the
\* handler launches, opens, terminates and deletes nothing and returns a
\* not-found status.
C11_EmptyPayloadIsNotFound ==
    (/\ pc = "speak_response"
     /\ command[1] \in {"open_app", "close_app", "open_folder", "delete_file"}
     /\ command[2] = <<>>
     /\ response[1] \notin C11_Raised)
    => (os_call = NoCall /\ response[1] \in C11_NotFound)

\* C12: a listen of the session loop that fails returns None, and the cycle
\* then classifies, dispatches and speaks nothing, leaves the context and the
\* running flag as they were, and goes back through the loop test to listen.
C12_FailedListenIsSkipped ==
    /\ [][/\ (pc = "listen" /\ text' = None /\ ~interrupted')
             => /\ pc' = "sleep"
                /\ UNCHANGED <<command, response, last_spoken, os_call, files,
                               CONVERSATION_CONTEXT, turns, running>>
          /\ (pc = "sleep" /\ ~interrupted')
             => /\ pc' = "loop"
                /\ UNCHANGED <<command, response, last_spoken, os_call, files,
                               CONVERSATION_CONTEXT, turns, running>>
         ]_vars
    /\ [](pc = "sleep" => (text = None /\ command = NoCommand /\ running))
    /\ [][(pc = "loop" /\ running /\ ~interrupted') => pc' = "listen"]_vars

C12_Witness ==
    /\ pc = "sleep"
    /\ text = None
    /\ running
    /\ Len(CONVERSATION_CONTEXT) = 1
    /\ last_spoken = Status("{}", <<"a"," ","l","a","n","g","u","a","g","e">>)

\* the alias list as authored
C13_Authored == <<
    <<"c","h","r","o","m","e">>, <<"g","o","o","g","l","e"," ","c","h","r","o","m","e">>, <<"f","i","r","e","f","o","x">>, <<"e","d","g","e">>, <<"m","i","c","r","o","s","o","f","t"," ","e","d","g","e">>, <<"b","r","o","w","s","e","r">>,
    <<"n","o","t","e","p","a","d">>, <<"n","o","t","e","p","a","d","+","+">>, <<"c","o","d","e">>, <<"v","i","s","u","a","l"," ","s","t","u","d","i","o"," ","c","o","d","e">>, <<"v","s"," ","c","o","d","e">>,
    <<"c","a","l","c","u","l","a","t","o","r">>, <<"c","a","l","c">>, <<"p","a","i","n","t">>, <<"m","s","p","a","i","n","t">>, <<"w","o","r","d">>, <<"e","x","c","e","l">>, <<"p","o","w","e","r","p","o","i","n","t">>,
    <<"s","p","o","t","i","f","y">>, <<"d","i","s","c","o","r","d">>, <<"s","t","e","a","m">>, <<"v","l","c">>, <<"m","e","d","i","a"," ","p","l","a","y","e","r">>,
    <<"s","e","t","t","i","n","g","s">>, <<"c","o","n","t","r","o","l"," ","p","a","n","e","l">>, <<"t","a","s","k"," ","m","a","n","a","g","e","r">>, <<"c","m","d">>, <<"c","o","m","m","a","n","d"," ","p","r","o","m","p","t">>,
    <<"p","o","w","e","r","s","h","e","l","l">>, <<"e","x","p","l","o","r","e","r">>, <<"f","i","l","e"," ","e","x","p","l","o","r","e","r">>, <<"w","i","n","d","o","w","s"," ","e","x","p","l","o","r","e","r">> >>

\* the walk over an alias list from position i: the first alias that is
\* contained in the fragment or contains it decides; the alias is the result
\* when it is contained in the fragment, the fragment otherwise
RECURSIVE C13_Walk(_, _, _)
C13_Walk(aliases, fragment, i) ==
    IF i > Len(aliases) THEN None
    ELSE IF contains(fragment, aliases[i]) THEN aliases[i]
    ELSE IF contains(aliases[i], fragment) THEN fragment
    ELSE C13_Walk(aliases, fragment, i + 1)

\* C13: on the close and on the open path the fragment is resolved by the
\* same first-match walk over the alias list in its authored order, so a
\* fragment resolves to the same result on both.
C13_FirstAliasInAuthoredOrder ==
    pc = "dispatch" =>
        /\ startswith(Normal(text), <<"c","l","o","s","e">>) =>
              LET f == close_target(Normal(text))
                  r == C13_Walk(C13_Authored, f, 1)
              IN  /\ r # None => command = <<"close_app", r>>
                  /\ r = None => command[1] # "close_app"
                  /\ resolve_app(open_app_names, f) = r
        /\ startswith(Normal(text), <<"o","p","e","n">>) =>
              LET f == open_target(Normal(text))
                  r == C13_Walk(C13_Authored, f, 1)
              IN  /\ r # None => command = <<"open_app", r>>
                  /\ r = None => command[1] # "open_app"
                  /\ resolve_app(close_app_names, f) = r

C13_Witness ==
    /\ pc = "dispatch"
    /\ text = <<"o","p","e","n"," ","g","o","o","g","l","e"," ","c","h","r","o","m","e">>
    /\ command = <<"open_app", <<"c","h","r","o","m","e">>>>
    /\ parse_command(<<"c","l","o","s","e"," ","g","o","o","g","l","e"," ","c","h","r","o","m","e">>) = <<"close_app", <<"c","h","r","o","m","e">>>>
    /\ parse_command(<<"o","p","e","n"," ","c","a","l","c">>) = <<"open_app", <<"c","a","l","c">>>>

\* C14: a text that starts with "close" and whose remainder resolves to no
\* alias is not a close_app command; it is the exit command when it is an
\* exit phrase or starts with "close assistant", and a general query with the
\* whole text otherwise.
C14_UnresolvedCloseFallsThrough ==
    (/\ pc = "dispatch"
     /\ startswith(Normal(text), <<"c","l","o","s","e">>)
     /\ C13_Walk(C13_Authored, close_target(Normal(text)), 1) = None)
    => IF \/ Normal(text) \in C1_Phrases
          \/ startswith(Normal(text), <<"c","l","o","s","e"," ","a","s","s","i","s","t","a","n","t">>)
       THEN command = <<"exit", None>>
       ELSE command = <<"general", Normal(text)>>

C14_Witness ==
    /\ pc = "dispatch"
    /\ text = <<"c","l","o","s","e"," ","d","o","w","n","l","o","a","d","s"," ","f","o","l","d","e","r">>
    /\ command = <<"general", <<"c","l","o","s","e"," ","d","o","w","n","l","o","a","d","s"," ","f","o","l","d","e","r">>>>
    /\ parse_command(<<"c","l","o","s","e"," ","a","s","s","i","s","t","a","n","t"," ","d","o","w","n","l","o","a","d","s">>) = <<"exit", None>>

\* C15: the answer to the delete confirmation is only tested for "yes": the
\* command being dispatched, the running flag and the context stay as they
\* are whatever the answer says, the handler then returns, and a step removes
\* no file but the one the delete command named.
C15_AnswerIsNotACommand ==
    /\ [][/\ (pc \in {"delete_listen", "delete_decide"} /\ ~interrupted')
             => /\ UNCHANGED <<text, command, running, CONVERSATION_CONTEXT, turns>>
                /\ pc' = IF pc = "delete_listen" THEN "delete_decide" ELSE "speak_response"
                /\ os_call' \in {os_call, <<"remove", resolved_path(files, command[2])>>}
          /\ files' # files
             => /\ command[1] = "delete_file"
                /\ files' = files \ {resolved_path(files, command[2])}
         ]_vars
    /\ []((command[1] = "delete_file" /\ pc \in {"delete_decide", "speak_response"})
          => running)

C15_Witness ==
    /\ pc = "speak_response"
    /\ command = <<"delete_file", <<"t","e","s","t",".","t","x","t">>>>
    /\ confirmation = <<"e","x","i","t">>
    /\ running
    /\ response = DeletionCancelled
    /\ os_call = NoCall

=============================================================================
